---- MODULE Spec2Model ----
(***************************************************************************)
(* Model of the eWeb MCP server's intent resolution:                       *)
(*   src/src/mcp_server.py   _extract_brand, _extract_time_window,         *)
(*                           handle_intent                                 *)
(*   src/src/eweb_client.py  EWebClient.__init__, get_supplier_stock,      *)
(*                           get_sales_history, _request                   *)
(* Text is a sequence of one-character strings, so that substring tests    *)
(* and the two regular expressions are computed character by character.    *)
(* Python's None is the empty sequence <<>> and a present value v is <<v>>.*)
(***************************************************************************)
EXTENDS Integers, Sequences, FiniteSets, TLC

VARIABLES
    xText,      \* extractor harness: the text handed to the extractors
    xNow,       \* extractor harness: the day datetime.utcnow() falls on (ordinal, 1 = 0001-01-01)
    xBrand,     \* extractor harness: <<>> until called, then <<result of _extract_brand>>
    xWindow,    \* extractor harness: <<>> until called, then <<outcome of _extract_time_window>>
    env,        \* process environment: EWEB_BASE_URL, EWEB_API_KEY, EWEB_DEFAULT_SUPPLIER_ID
    pc,         \* per request: position of handle_intent
    payload,    \* per request: the IntentRequest (query, supplier_id)
    client,     \* per request: the EWebClient built at line 92 (its credentials)
    local,      \* per request: handle_intent's locals (intent branch, supplier_id, brand, params, now)
    calls,      \* per request: the collaborator invocations made, in order
    http,       \* per request: the HTTP requests _request sent, in order
    upstream,   \* per request: what the eWeb API answered (<<>> while none)
    outcome     \* per request: how handle_intent ended (<<>> while running)

vars == <<xText, xNow, xBrand, xWindow, env, pc, payload, client, local,
          calls, http, upstream, outcome>>

(***************************************************************************)
(* Characters and strings                                                  *)
(***************************************************************************)
UpperSeq == <<"A","B","C","D","E","F","G","H","I","J","K","L","M",
              "N","O","P","Q","R","S","T","U","V","W","X","Y","Z">>
LowerSeq == <<"a","b","c","d","e","f","g","h","i","j","k","l","m",
              "n","o","p","q","r","s","t","u","v","w","x","y","z">>
DigitSeq == <<"0","1","2","3","4","5","6","7","8","9">>

Range(s) == {s[i] : i \in 1..Len(s)}

UpperCh == Range(UpperSeq)
LowerCh == Range(LowerSeq)
DigitCh == Range(DigitSeq)

\* \w of the re module, on the characters the model uses
WordCh == UpperCh \cup LowerCh \cup DigitCh \cup {"_"}
\* the class [A-Za-z0-9&'-] of the brand pattern
BrandCh == UpperCh \cup LowerCh \cup DigitCh \cup {"&", "'", "-"}
\* the class [-\s] of the time pattern
SepCh == {"-", " ", "\t", "\n"}

None == <<>>
Some(v) == <<v>>

Max(S) == CHOOSE m \in S : \A n \in S : n <= m
Min(S) == CHOOSE m \in S : \A n \in S : m <= n

\* str.lower() on one character
LowerChar(c) ==
    IF c \in UpperCh THEN LowerSeq[CHOOSE i \in 1..26 : UpperSeq[i] = c] ELSE c

\* str.lower()
Lower(t) == [i \in 1..Len(t) |-> LowerChar(t[i])]

\* t[i:].startswith(w)
StartsWithAt(t, i, w) ==
    /\ i >= 1
    /\ i + Len(w) - 1 <= Len(t)
    /\ \A k \in 1..Len(w) : t[i + k - 1] = w[k]

\* w in t
Contains(t, w) == \E i \in 1..(Len(t) + 1) : StartsWithAt(t, i, w)

\* the last index of the run of characters of class C that starts at i (i - 1: none)
RunEnd(t, i, C) ==
    LET stops == {j \in i..Len(t) : t[j] \notin C}
    IN  IF stops = {} THEN Len(t) ELSE Min(stops) - 1

\* words, written out as character sequences
W_show      == <<"s","h","o","w">>
W_get       == <<"g","e","t">>
W_sales     == <<"s","a","l","e","s">>
W_sale      == <<"s","a","l","e">>
W_inventory == <<"i","n","v","e","n","t","o","r","y">>
W_stock     == <<"s","t","o","c","k">>
W_day       == <<"d","a","y">>
W_week      == <<"w","e","e","k">>
W_month     == <<"m","o","n","t","h">>
W_year      == <<"y","e","a","r">>
W_last      == <<"l","a","s","t">>
W_Show      == <<"S","h","o","w">>
W_ACME      == <<"A","C","M","E">>
W_TechCo    == <<"T","e","c","h","C","o">>
W_X         == <<"X">>
W_hello     == <<"h","e","l","l","o">>
W_three     == <<"t","h","r","e","e">>
W_months    == <<"m","o","n","t","h","s">>
W_weeks     == <<"w","e","e","k","s">>
W_years     == <<"y","e","a","r","s">>
W_2         == <<"2">>
W_9999      == <<"9","9","9","9">>
Space       == <<" ">>

RECURSIVE Join(_)
\* " ".join(words)
Join(ws) ==
    IF Len(ws) = 0 THEN <<>>
    ELSE IF Len(ws) = 1 THEN ws[1]
    ELSE ws[1] \o Space \o Join(Tail(ws))

\* every text of 1..n words of the vocabulary V, joined by single spaces
Texts(V, n) == {Join(ws) : ws \in UNION {[1..k -> V] : k \in 1..n}}

(***************************************************************************)
(* _extract_brand (mcp_server.py 36-42)                                    *)
(***************************************************************************)
\* \b at the gap before position i (i in 1..Len(t)+1)
Boundary(t, i) ==
    LET before == i > 1 /\ t[i - 1] \in WordCh
        after  == i <= Len(t) /\ t[i] \in WordCh
    IN  before # after

BrandStopwords == {W_show, W_get, W_sales, W_inventory, W_stock}

\* the pattern with * in place of +: a lone capital letter matches
BrandMatchEndStar(t, i) ==
    IF ~(i <= Len(t) /\ Boundary(t, i) /\ t[i] \in UpperCh) THEN 0
    ELSE LET run   == RunEnd(t, i + 1, BrandCh)
             cands == {j \in i..run : Boundary(t, j + 1)}
         IN  IF cands = {} THEN 0 ELSE Max(cands)

\* the match of \b([A-Z][A-Za-z0-9&'-]+)\b anchored at i: its last index, 0 if none.
\* The + is greedy and gives characters back until the closing \b holds.
BrandMatchEnd(t, i) ==
    IF ~(i <= Len(t) /\ Boundary(t, i) /\ t[i] \in UpperCh) THEN 0
    ELSE LET run   == RunEnd(t, i + 1, BrandCh)
             cands == {j \in (i + 1)..run : Boundary(t, j + 1)}
         IN  IF cands = {} THEN 0 ELSE Max(cands)

RECURSIVE FindAllFrom(_, _)
\* re.findall from position pos on: the non-overlapping matches, left to right
FindAllFrom(t, pos) ==
    IF pos > Len(t) THEN <<>>
    ELSE LET e == BrandMatchEnd(t, pos)
         IN  IF e = 0 THEN FindAllFrom(t, pos + 1)
             ELSE <<SubSeq(t, pos, e)>> \o FindAllFrom(t, e + 1)

BrandCandidates(t) == FindAllFrom(t, 1)

\* _extract_brand: the first candidate whose lower() is no stopword, else None
extract_brand(t) ==
    LET cs   == BrandCandidates(t)
        keep == {k \in 1..Len(cs) : Lower(cs[k]) \notin BrandStopwords}
    IN  IF keep = {} THEN None ELSE Some(cs[Min(keep)])

(***************************************************************************)
(* _extract_time_window (mcp_server.py 45-86)                              *)
(***************************************************************************)
\* number_words, in the order of the pattern's alternation
NumberWords == <<
    [word |-> <<"o","n","e">>,             value |-> 1],
    [word |-> <<"t","w","o">>,             value |-> 2],
    [word |-> W_three,                     value |-> 3],
    [word |-> <<"f","o","u","r">>,         value |-> 4],
    [word |-> <<"f","i","v","e">>,         value |-> 5],
    [word |-> <<"s","i","x">>,             value |-> 6],
    [word |-> <<"s","e","v","e","n">>,     value |-> 7],
    [word |-> <<"e","i","g","h","t">>,     value |-> 8],
    [word |-> <<"n","i","n","e">>,         value |-> 9],
    [word |-> <<"t","e","n">>,             value |-> 10],
    [word |-> <<"e","l","e","v","e","n">>, value |-> 11],
    [word |-> <<"t","w","e","l","v","e">>, value |-> 12] >>

\* (day|week|month|year), in the order of the alternation
Units == <<W_day, W_week, W_month, W_year>>

\* the ends the first group can take at i, in the order the matcher tries them:
\* \d+ from the longest digit run down to one digit, then the number words
QuantityEnds(t, i) ==
    LET run    == RunEnd(t, i, DigitCh)
        digits == [k \in 1..(run - i + 1) |-> run - k + 1]
        words  == SelectSeq(NumberWords, LAMBDA nw : StartsWithAt(t, i, nw.word))
    IN  digits \o [k \in 1..Len(words) |-> i + Len(words[k].word) - 1]

\* [-\s]*(day|week|month|year) after a quantity ending at e: the unit, <<>> if none.
\* The star is greedy and gives separators back until a unit follows.
UnitAfter(t, e) ==
    LET run == RunEnd(t, e + 1, SepCh)
        ok  == {s \in e..run : \E k \in 1..Len(Units) : StartsWithAt(t, s + 1, Units[k])}
    IN  IF ok = {} THEN None
        ELSE LET s == Max(ok)
                 k == Min({u \in 1..Len(Units) : StartsWithAt(t, s + 1, Units[u])})
             IN  Some(Units[k])

\* the two groups of a match from i whose quantity ends at e
TimeGroups(t, i, e) ==
    Some([quantity_raw |-> SubSeq(t, i, e), unit |-> UnitAfter(t, e)[1]])

\* the match anchored at i given the quantity ends to try: the first end a
\* unit follows
TimeMatchWith(t, i, ends) ==
    LET ok == {k \in 1..Len(ends) : UnitAfter(t, ends[k]) # None}
    IN  IF ok = {} THEN None ELSE TimeGroups(t, i, ends[Min(ok)])

\* the match of the time pattern anchored at i: <<[quantity_raw, unit]>>, <<>> if none
TimeMatchAt(t, i) == TimeMatchWith(t, i, QuantityEnds(t, i))

\* the match at the least of the positions at
TimeMatchLeftmost(t, at) == IF at = {} THEN None ELSE TimeMatchAt(t, Min(at))

\* re.search: the match at the leftmost position that has one
TimeSearch(t) == TimeMatchLeftmost(t, {i \in 1..Len(t) : TimeMatchAt(t, i) # None})

\* str.isdigit() on a non-empty match
IsDigits(s) == \A k \in 1..Len(s) : s[k] \in DigitCh

DigitVal(c) == (CHOOSE i \in 1..10 : DigitSeq[i] = c) - 1

RECURSIVE ParseInt(_)
\* int(s) of a digit string
ParseInt(s) ==
    IF Len(s) = 0 THEN 0
    ELSE ParseInt(SubSeq(s, 1, Len(s) - 1)) * 10 + DigitVal(s[Len(s)])

\* number_words.get(w, 1)
NumberWordValue(w) ==
    LET hit == {k \in 1..Len(NumberWords) : NumberWords[k].word = w}
    IN  IF hit = {} THEN 1 ELSE NumberWords[Min(hit)].value

\* timedelta(...).days for the unit and quantity (lines 76-83)
DeltaDays(unit, quantity) ==
    IF StartsWithAt(unit, 1, W_day) THEN quantity
    ELSE IF StartsWithAt(unit, 1, W_week) THEN 7 * quantity
    ELSE IF StartsWithAt(unit, 1, W_month) THEN 30 * quantity
    ELSE 365 * quantity

\* datetime.min is 0001-01-01, ordinal 1: now - delta below it raises OverflowError
MinOrdinal == 1

\* days before the first of each month in a common year
DaysBeforeMonth == <<0, 31, 59, 90, 120, 151, 181, 212, 243, 273, 304, 334>>

IsLeap(y) == y % 4 = 0 /\ (y % 100 # 0 \/ y % 400 = 0)

\* strftime("%Y-%m-%d") of the day with ordinal n: the calendar date it writes
FormatDate(n) ==
    LET n0   == n - 1
        n400 == n0 \div 146097
        r400 == n0 % 146097
        n100 == r400 \div 36524
        r100 == r400 % 36524
        n4   == r100 \div 1461
        r4   == r100 % 1461
        n1   == r4 \div 365
        r1   == r4 % 365
        y    == n400 * 400 + n100 * 100 + n4 * 4 + n1 + 1
    IN  IF n1 = 4 \/ n100 = 4
        THEN [year |-> y - 1, month |-> 12, day |-> 31]
        ELSE LET leap   == IsLeap(y)
                 before == [m \in 1..12 |->
                              DaysBeforeMonth[m] + (IF m > 2 /\ leap THEN 1 ELSE 0)]
                 mo     == Max({m \in 1..12 : before[m] <= r1})
             IN  [year |-> y, month |-> mo, day |-> r1 - before[mo] + 1]

\* the phrases of lines 67-72, in the order they are tested
LastPhrases == <<
    [phrase |-> W_last \o Space \o W_year,  unit |-> W_year],
    [phrase |-> W_last \o Space \o W_month, unit |-> W_month],
    [phrase |-> W_last \o Space \o W_week,  unit |-> W_week] >>

\* line 66: the quantity of a match
MatchQuantity(quantity_raw) ==
    IF IsDigits(quantity_raw) THEN ParseInt(quantity_raw)
    ELSE NumberWordValue(quantity_raw)

\* lines 67-74 given the indices ph of the phrases the text contains
PhraseQuantity(ph) ==
    IF ph # {} THEN Some([quantity |-> 1, unit |-> LastPhrases[Min(ph)].unit])
    ELSE None

\* lines 64-74 for the lower-cased text t and the result m of re.search
QuantityOfMatch(t, m) ==
    IF m # None
    THEN Some([quantity |-> MatchQuantity(m[1].quantity_raw), unit |-> m[1].unit])
    ELSE PhraseQuantity({k \in 1..Len(LastPhrases) : Contains(t, LastPhrases[k].phrase)})

\* lines 63-74 on the lower-cased text
QuantityOfLower(t) == QuantityOfMatch(t, TimeSearch(t))

\* lines 47-74: <<[quantity, unit]>>, or <<>> for the early return {}
TimeQuantity(text) == QuantityOfLower(Lower(text))

\* the subtraction of line 85: the ordinal of start, or <<>> when it raises
SubtractDays(now, days) ==
    IF now - days < MinOrdinal THEN None ELSE Some(now - days)

\* lines 85-86 given what the subtraction gave
WindowFrom(start, now) ==
    IF start = None
    THEN [raised |-> "OverflowError", value |-> <<>>]
    ELSE [raised |-> "",
          value |-> [start_date |-> FormatDate(start[1]), end_date |-> FormatDate(now)]]

\* lines 74-86 given the quantity and unit found
WindowOf(qu, now) ==
    IF qu = None THEN [raised |-> "", value |-> <<>>]
    ELSE WindowFrom(SubtractDays(now, DeltaDays(qu[1].unit, qu[1].quantity)), now)

\* _extract_time_window: [raised, value]; value is the dict returned (<<>> is {})
extract_time_window(text, now) == WindowOf(TimeQuantity(text), now)

(***************************************************************************)
(* The extractors applied to bounded inputs                                *)
(***************************************************************************)
MaxWords == 3

BrandVocab == {W_Show, W_TechCo, W_X, W_stock, W_sales,
               <<"A","-">>, <<"i","P","a","d">>, <<"G","e","t","-","A","&","B">>}

TimeVocab == {W_last, W_2, W_9999, W_three, W_weeks, W_year, W_months,
              <<"d","a","y","s","-">>}

NowValues == {719163, 739924}

ExtractorTexts == Texts(BrandVocab, MaxWords) \cup Texts(TimeVocab, MaxWords)

InitX ==
    /\ xText \in ExtractorTexts
    /\ xNow \in NowValues
    /\ xBrand = None
    /\ xWindow = None
    /\ env = [base_url |-> None, api_key |-> None, default_supplier_id |-> None]
    /\ pc = <<>> /\ payload = <<>> /\ client = <<>> /\ local = <<>>
    /\ calls = <<>> /\ http = <<>> /\ upstream = <<>> /\ outcome = <<>>

xvars == <<xText, xNow, xBrand, xWindow>>

hvars == <<env, pc, payload, client, local, calls, http, upstream, outcome>>

CallExtractBrand ==
    /\ xBrand = None
    /\ xBrand' = Some(extract_brand(xText))
    /\ UNCHANGED <<xText, xNow, xWindow, hvars>>

CallExtractTimeWindow ==
    /\ xWindow = None
    /\ xWindow' = Some(extract_time_window(xText, xNow))
    /\ UNCHANGED <<xText, xNow, xBrand, hvars>>

NextX == CallExtractBrand \/ CallExtractTimeWindow

SpecX == InitX /\ [][NextX]_vars

(***************************************************************************)
(* Properties of the extractors (checked under SpecX)                      *)
(***************************************************************************)
\* a span i..j shaped as a token: a capital letter that starts a word, then at
\* least minTail characters of the brand class, ending at a word boundary
TokenShaped(t, i, j, minTail) ==
    /\ 1 <= i /\ i + minTail <= j /\ j <= Len(t)
    /\ t[i] \in UpperCh
    /\ Boundary(t, i)
    /\ \A k \in (i + 1)..j : t[k] \in BrandCh
    /\ Boundary(t, j + 1)

\* the token spans not contained in a longer token span
MaximalTokens(t, minTail) ==
    LET spans == {s \in (1..Len(t)) \X (1..Len(t)) : TokenShaped(t, s[1], s[2], minTail)}
    IN  {s \in spans : \A r \in spans : (r[1] <= s[1] /\ s[2] <= r[2]) => r = s}

\* the token that starts first among those whose lowercase form is no stopword
FirstBrand(t, minTail) ==
    LET ok == {s \in MaximalTokens(t, minTail) :
                   Lower(SubSeq(t, s[1], s[2])) \notin BrandStopwords}
    IN  IF ok = {} THEN None
        ELSE LET s == CHOOSE s \in ok : \A r \in ok : s[1] <= r[1]
             IN  Some(SubSeq(t, s[1], s[2]))

\* C7 as stated: the tokens are a capital letter optionally followed by letters,
\* digits, ampersands, apostrophes or hyphens (a single capital letter is a
\* token), and extract_brand returns the first token that is no stopword
C7_AsClaimed ==
    xBrand # None => xBrand[1] = FirstBrand(xText, 0)

\* C7 amended: the tokens are a capital letter that starts a word followed by at
\* least one letter, digit, ampersand, apostrophe or hyphen, taken as long as a
\* word boundary allows (a single capital letter is no token); extract_brand
\* returns the first token whose lowercase form is no stopword, absent when none
\* qualifies, and never a member of the stopword set
C7_FirstNonStopwordToken ==
    xBrand # None =>
        /\ xBrand[1] = FirstBrand(xText, 1)
        /\ xBrand[1] # None => Lower(xBrand[1][1]) \notin BrandStopwords

\* "Show X TechCo": the stopword and the single capital are passed over
C7_Witness ==
    /\ xText = Join(<<W_Show, W_X, W_TechCo>>)
    /\ xBrand = Some(Some(W_TechCo))

\* the calendar order of two written dates
DateLE(a, b) ==
    \/ a.year < b.year
    \/ a.year = b.year /\ a.month < b.month
    \/ a.year = b.year /\ a.month = b.month /\ a.day <= b.day

\* C8: time window extraction ends with both bounds present and start_date <=
\* end_date, or with both absent, and in no other way
C8_BothOrNeither ==
    xWindow # None =>
        /\ xWindow[1].raised = ""
        /\ \/ xWindow[1].value = <<>>
           \/ /\ DOMAIN xWindow[1].value = {"start_date", "end_date"}
              /\ DateLE(xWindow[1].value.start_date, xWindow[1].value.end_date)

\* an occurrence of <quantity><separators><unit> at i: quantity t[i..j], unit u
RefOccurs(t, i, j, u) ==
    /\ \/ IsDigits(SubSeq(t, i, j))
       \/ \E n \in 1..Len(NumberWords) : NumberWords[n].word = SubSeq(t, i, j)
    /\ \E k \in j..Len(t) :
          /\ \A s \in (j + 1)..k : t[s] \in SepCh
          /\ StartsWithAt(t, k + 1, Units[u])

\* the reference algorithm's (quantity, unit) on the lower-cased text
RefQuantity(text) ==
    LET t   == Lower(text)
        occ == {o \in (1..Len(t)) \X (1..Len(t)) \X (1..Len(Units)) :
                    o[1] <= o[2] /\ RefOccurs(t, o[1], o[2], o[3])}
    IN  IF occ # {}
        THEN LET o == CHOOSE o \in occ : \A r \in occ : o[1] <= r[1]
                 q == SubSeq(t, o[1], o[2])
             IN  Some([quantity |-> IF IsDigits(q) THEN ParseInt(q)
                                    ELSE NumberWordValue(q),
                       unit |-> Units[o[3]]])
        ELSE IF Contains(t, W_last \o Space \o W_year)
             THEN Some([quantity |-> 1, unit |-> W_year])
        ELSE IF Contains(t, W_last \o Space \o W_month)
             THEN Some([quantity |-> 1, unit |-> W_month])
        ELSE IF Contains(t, W_last \o Space \o W_week)
             THEN Some([quantity |-> 1, unit |-> W_week])
        ELSE None

\* the reference delta in days
RefDelta(q) ==
    CASE q.unit = W_day   -> q.quantity
      [] q.unit = W_week  -> q.quantity * 7
      [] q.unit = W_month -> q.quantity * 30
      [] q.unit = W_year  -> q.quantity * 365

\* the reference algorithm's window: <<>> for none, else (now - delta, now)
RefWindow(text, now) ==
    LET q == RefQuantity(text)
    IN  IF q = None THEN <<>>
        ELSE [start_date |-> FormatDate(now - RefDelta(q[1])),
              end_date   |-> FormatDate(now)]

\* C6: extract_time_window(text, now) returns the reference algorithm's window
C6_EqualsReference ==
    xWindow # None =>
        xWindow[1] = [raised |-> "", value |-> RefWindow(xText, xNow)]

\* the reference and the code agree wherever now - delta is a date
AgreesWhereRepresentable ==
    (xWindow # None /\ xWindow[1].raised = "") =>
        xWindow[1].value = RefWindow(xText, xNow)

(***************************************************************************)
(* Python values                                                           *)
(***************************************************************************)
\* bool(v) of an optional str held as a TLA+ string
TruthyStr(o) == o # None /\ o[1] # ""
\* bool(v) of an optional str held as a character sequence
TruthySeq(o) == o # None /\ o[1] # <<>>
\* b or a: the operands of or exchanged
OrStrSwapped(a, b) == IF TruthyStr(b) THEN b ELSE a

\* a or b, on optional strs
OrStr(a, b) == IF TruthyStr(a) THEN a ELSE b

\* dict.update({k: v})
DictUpdate(d, k, v) == [x \in (DOMAIN d) \cup {k} |-> IF x = k THEN v ELSE d[x]]
\* {k: v for k, v in d.items() if v is not None} (_request, line 107)
DropNone(d) == [x \in {k \in DOMAIN d : d[k] # None} |-> d[x]]

(***************************************************************************)
(* EWebClient (eweb_client.py)                                             *)
(***************************************************************************)
\* __init__ (49-78) with no arguments: the credentials read from the
\* environment, or the ValueError raised when a required one is missing
NewClient(e) ==
    IF ~TruthyStr(e.base_url)
    THEN [raised |-> "ValueError", credentials |-> None]
    ELSE IF ~TruthyStr(e.api_key)
    THEN [raised |-> "ValueError", credentials |-> None]
    ELSE [raised |-> "",
          credentials |-> Some([base_url |-> e.base_url, api_key |-> e.api_key,
                                default_supplier_id |-> e.default_supplier_id])]

\* get_supplier_stock (116-149) up to the request it hands to _request:
\* [raised, request]
get_supplier_stock(cred, supplier_id, brand) ==
    LET sid == OrStr(supplier_id, cred.default_supplier_id)
    IN  IF ~TruthyStr(sid) THEN [raised |-> "ValueError", request |-> None]
        ELSE [raised |-> "",
              request |-> Some([method |-> "GET", path |-> "/inventory/supplier-stock",
                  params |-> DropNone([supplierId |-> sid, brand |-> brand,
                                       page |-> Some(1), pageSize |-> Some(100)])])]

\* get_sales_history (151-186) up to the request it hands to _request
get_sales_history(cred, kw) ==
    LET arg(k) == IF k \in DOMAIN kw THEN kw[k] ELSE None
    IN  IF ~(TruthySeq(arg("sku")) \/ TruthySeq(arg("upc")) \/ TruthySeq(arg("brand")))
        THEN [raised |-> "ValueError", request |-> None]
        ELSE [raised |-> "",
              request |-> Some([method |-> "GET", path |-> "/sales/history",
                  params |-> DropNone([sku |-> arg("sku"), upc |-> arg("upc"),
                                       brand |-> arg("brand"),
                                       startDate |-> arg("start_date"),
                                       endDate |-> arg("end_date"),
                                       locationId |-> arg("location_id")])])]

\* the keyword parameters get_sales_history accepts (153-159)
SalesHistoryKeywords == {"sku", "upc", "brand", "start_date", "end_date", "location_id"}

\* the call f(brand=brand, **params) of line 115: Python binds the keywords before
\* the body runs and raises TypeError when one is given twice or is not accepted
BindSalesKeywords(brand, params) ==
    IF "brand" \in DOMAIN params THEN [raised |-> "TypeError", kw |-> <<>>]
    ELSE IF ~((DOMAIN params) \subseteq SalesHistoryKeywords)
    THEN [raised |-> "TypeError", kw |-> <<>>]
    ELSE [raised |-> "", kw |-> DictUpdate([k \in DOMAIN params |-> Some(params[k])],
                                           "brand", brand)]

\* what the eWeb API can answer to a request (_request, 102-111): a JSON body,
\* an error status (raise_for_status raises HTTPStatusError), or no answer at
\* all (client.request raises a transport error)
UpstreamAnswers == {[kind |-> "json", status |-> 200],
                    [kind |-> "status", status |-> 503],
                    [kind |-> "transport", status |-> 0]}

(***************************************************************************)
(* handle_intent (mcp_server.py 89-118), one step per pc value             *)
(***************************************************************************)
Queries == {"q1", "q2"}

NoLocal == [intent |-> "", supplier_id |-> None, brand |-> None,
            params |-> <<>>, now |-> None]

DetailSupplier == "Supplier ID is required for inventory queries. Set EWEB_DEFAULT_SUPPLIER_ID or provide one in the request."
DetailBrand == "Unable to determine a brand or item for the sales query. Please specify a brand name."
DetailIntent == "Unable to interpret the requested intent."

\* raise HTTPException(status_code=400, detail=d)
HTTPException400(d) == [kind |-> "HTTPException", status_code |-> 400, detail |-> d]
\* an exception handle_intent does not catch
Unhandled(type, status) == [kind |-> "Unhandled", type |-> type, status |-> status]
\* return IntentResponse(...)
IntentResponse(intent, params, data) ==
    [kind |-> "IntentResponse", intent |-> intent, parameters |-> params, data |-> data]

\* what the route hands the HTTP caller for an outcome (@app.post, line 89):
\* the model for a return, the status and detail of an HTTPException, and
\* 500 Internal Server Error for any other exception
WireResponse(o) ==
    IF o.kind = "IntentResponse" THEN [status_code |-> 200, detail |-> ""]
    ELSE IF o.kind = "HTTPException" THEN [status_code |-> o.status_code, detail |-> o.detail]
    ELSE [status_code |-> 500, detail |-> "Internal Server Error"]

\* the two tests in the other order: "sale" first
ClassifySaleFirst(query_lower) ==
    IF Contains(query_lower, W_sale) THEN "sales_history"
    ELSE IF Contains(query_lower, W_inventory) \/ Contains(query_lower, W_stock)
    THEN "supplier_stock"
    ELSE "none"

\* the branch of lines 94, 106, 118 for the lower-cased query
Classify(query_lower) ==
    IF Contains(query_lower, W_inventory) \/ Contains(query_lower, W_stock)
    THEN "supplier_stock"
    ELSE IF Contains(query_lower, W_sale) THEN "sales_history"
    ELSE "none"

\* the brand read from a payload kept in one place for all requests: another
\* request's query when one has arrived
BrandOfShared(q) ==
    LET others == {r \in Queries \ {q} : payload[r] # <<>>}
    IN  IF others = {} THEN extract_brand(payload[q].query)
        ELSE extract_brand(payload[CHOOSE r \in others : TRUE].query)

\* _extract_brand(payload.query) of lines 96 and 108
BrandOf(q) == extract_brand(payload[q].query)

Finish(q, o) ==
    /\ pc' = [pc EXCEPT ![q] = "done"]
    /\ outcome' = [outcome EXCEPT ![q] = Some(o)]

\* a request with query text t arrives: FastAPI builds the IntentRequest and
\* calls handle_intent
Arrive(q, t) ==
    /\ pc[q] = "idle"
    /\ \E sid \in {None, Some(""), Some("S2")} :
          payload' = [payload EXCEPT ![q] = [query |-> t, supplier_id |-> sid]]
    /\ pc' = [pc EXCEPT ![q] = "start"]
    /\ UNCHANGED <<env, client, local, calls, http, upstream, outcome, xvars>>

\* line 92: client = EWebClient()
Construct(q) ==
    /\ pc[q] = "start"
    /\ LET c == NewClient(env)
       IN  IF c.raised # ""
           THEN /\ Finish(q, Unhandled(c.raised, 0))
                /\ UNCHANGED client
           ELSE /\ client' = [client EXCEPT ![q] = c.credentials]
                /\ pc' = [pc EXCEPT ![q] = "classify"]
                /\ UNCHANGED outcome
    /\ UNCHANGED <<env, payload, local, calls, http, upstream, xvars>>

\* lines 91, 94, 106, 118: the branch taken
ClassifyStep(q) ==
    /\ pc[q] = "classify"
    /\ LET intent == Classify(Lower(payload[q].query))
       IN  /\ local' = [local EXCEPT ![q].intent = intent]
           /\ IF intent = "none"
              THEN Finish(q, HTTPException400(DetailIntent))
              ELSE /\ pc' = [pc EXCEPT ![q] = intent]
                   /\ UNCHANGED outcome
    /\ UNCHANGED <<env, payload, client, calls, http, upstream, xvars>>

\* lines 95-102 without the test of line 97
StockAssembleUnchecked(q) ==
    /\ pc[q] = "supplier_stock"
    /\ local' = [local EXCEPT
                    ![q].supplier_id = OrStr(payload[q].supplier_id,
                                             client[q][1].default_supplier_id),
                    ![q].brand = BrandOf(q),
                    ![q].params = [supplier_id |-> OrStr(payload[q].supplier_id,
                                                         client[q][1].default_supplier_id),
                                   brand |-> BrandOf(q)]]
    /\ pc' = [pc EXCEPT ![q] = "stock_call"]
    /\ UNCHANGED <<env, payload, client, calls, http, upstream, outcome, xvars>>

\* lines 95-102
StockAssemble(q) ==
    /\ pc[q] = "supplier_stock"
    /\ LET supplier_id == OrStr(payload[q].supplier_id, client[q][1].default_supplier_id)
           brand       == BrandOf(q)
       IN  IF ~TruthyStr(supplier_id)
           THEN /\ local' = [local EXCEPT ![q].supplier_id = supplier_id,
                                          ![q].brand = brand]
                /\ Finish(q, HTTPException400(DetailSupplier))
           ELSE /\ local' = [local EXCEPT ![q].supplier_id = supplier_id,
                                          ![q].brand = brand,
                                          ![q].params = [supplier_id |-> supplier_id,
                                                         brand |-> brand]]
                /\ pc' = [pc EXCEPT ![q] = "stock_call"]
                /\ UNCHANGED outcome
    /\ UNCHANGED <<env, payload, client, calls, http, upstream, xvars>>

\* line 103 up to the request being sent
CallSupplierStock(q) ==
    /\ pc[q] = "stock_call"
    /\ calls' = [calls EXCEPT ![q] = Append(@,
                    [fn |-> "get_supplier_stock",
                     args |-> [supplier_id |-> local[q].supplier_id,
                               brand |-> local[q].brand]])]
    /\ LET r == get_supplier_stock(client[q][1], local[q].supplier_id, local[q].brand)
       IN  IF r.raised # ""
           THEN /\ Finish(q, Unhandled(r.raised, 0))
                /\ UNCHANGED http
           ELSE /\ http' = [http EXCEPT ![q] = Append(@, r.request[1])]
                /\ pc' = [pc EXCEPT ![q] = "await"]
                /\ UNCHANGED outcome
    /\ UNCHANGED <<env, payload, client, local, upstream, xvars>>

\* lines 108-114 given the dict window that line 107 returned
SalesParams(q, now, window, brand) ==
    /\ local' = [local EXCEPT ![q].now = Some(now),
                              ![q].brand = brand,
                              ![q].params = DictUpdate(window, "brand", brand)]
    /\ IF ~TruthySeq(brand)
       THEN Finish(q, HTTPException400(DetailBrand))
       ELSE /\ pc' = [pc EXCEPT ![q] = "sales_call"]
            /\ UNCHANGED outcome

\* lines 107-114 given the outcome w of _extract_time_window
SalesWindow(q, now, w) ==
    IF w.raised # ""
    THEN /\ local' = [local EXCEPT ![q].now = Some(now)]
         /\ Finish(q, Unhandled(w.raised, 0))
    ELSE SalesParams(q, now, w.value, BrandOf(q))

\* lines 107-114; datetime.utcnow() is an input of the step
SalesAssemble(q) ==
    /\ pc[q] = "sales_history"
    /\ \E now \in NowValues :
          SalesWindow(q, now, extract_time_window(payload[q].query, now))
    /\ UNCHANGED <<env, payload, client, calls, http, upstream, xvars>>

\* line 115 up to the request being sent
CallSalesHistory(q) ==
    /\ pc[q] = "sales_call"
    /\ LET b == BindSalesKeywords(local[q].brand, local[q].params)
       IN  IF b.raised # ""
           THEN /\ Finish(q, Unhandled(b.raised, 0))
                /\ UNCHANGED <<calls, http>>
           ELSE LET r == get_sales_history(client[q][1], b.kw)
                IN  /\ calls' = [calls EXCEPT ![q] = Append(@,
                                    [fn |-> "get_sales_history", args |-> b.kw])]
                    /\ IF r.raised # ""
                       THEN /\ Finish(q, Unhandled(r.raised, 0))
                            /\ UNCHANGED http
                       ELSE /\ http' = [http EXCEPT ![q] = Append(@, r.request[1])]
                            /\ pc' = [pc EXCEPT ![q] = "await"]
                            /\ UNCHANGED outcome
    /\ UNCHANGED <<env, payload, client, local, upstream, xvars>>

\* _request lines 103-111, then line 104 or 116: the API answers and the handler
\* returns, or the exception of _request leaves handle_intent uncaught
Respond(q) ==
    /\ pc[q] = "await"
    /\ \E a \in UpstreamAnswers :
          /\ upstream' = [upstream EXCEPT ![q] = Some(a)]
          /\ Finish(q, CASE a.kind = "json" ->
                              IntentResponse(local[q].intent, local[q].params, "payload")
                         [] a.kind = "status" -> Unhandled("HTTPStatusError", a.status)
                         [] a.kind = "transport" -> Unhandled("RequestError", 0))
    /\ UNCHANGED <<env, payload, client, local, calls, http, xvars>>

\* the environments the server is started in
Environments ==
    {[base_url |-> Some("https://eweb"), api_key |-> Some("key"), default_supplier_id |-> d] :
        d \in {None, Some(""), Some("S1")}}
    \cup {[base_url |-> None, api_key |-> Some("key"), default_supplier_id |-> Some("S1")],
          [base_url |-> Some("https://eweb"), api_key |-> None, default_supplier_id |-> Some("S1")]}

InitH ==
    /\ env \in Environments
    /\ pc = [q \in Queries |-> "idle"]
    /\ payload = [q \in Queries |-> <<>>]
    /\ client = [q \in Queries |-> None]
    /\ local = [q \in Queries |-> NoLocal]
    /\ calls = [q \in Queries |-> <<>>]
    /\ http = [q \in Queries |-> <<>>]
    /\ upstream = [q \in Queries |-> None]
    /\ outcome = [q \in Queries |-> None]
    /\ xText = <<>> /\ xNow = 0 /\ xBrand = None /\ xWindow = None

(***************************************************************************)
(* One request at a time, over every query of up to MaxFragments fragments *)
(***************************************************************************)
MaxFragments == 2

QueryFragments == {W_Show \o Space \o W_ACME, W_stock, W_inventory,
                   W_TechCo \o Space \o W_sales, W_sales,
                   W_last \o Space \o W_2 \o Space \o W_weeks,
                   W_9999 \o Space \o W_years, W_hello}

QueryTexts == Texts(QueryFragments, MaxFragments)

\* a request arrives with any of the query texts
Receive(q) == \E t \in QueryTexts : Arrive(q, t)

Next ==
    \/ Receive("q1")
    \/ Construct("q1")
    \/ ClassifyStep("q1")
    \/ StockAssemble("q1")
    \/ CallSupplierStock("q1")
    \/ SalesAssemble("q1")
    \/ CallSalesHistory("q1")
    \/ Respond("q1")

Spec == InitH /\ [][Next]_vars

(***************************************************************************)
(* Requests handled concurrently (the route is a def: one thread each)     *)
(***************************************************************************)
ConcurrentTexts == {Join(<<W_Show, W_ACME, W_stock>>),
                    Join(<<W_TechCo, W_sales, W_last, W_2, W_weeks>>),
                    Join(<<W_sales, W_9999, W_years>>),
                    W_hello}

\* a request arrives with one of the concurrent texts
ReceiveC(q) == \E t \in ConcurrentTexts : Arrive(q, t)

NextC ==
    \E q \in Queries :
        \/ ReceiveC(q)
        \/ Construct(q)
        \/ ClassifyStep(q)
        \/ StockAssemble(q)
        \/ CallSupplierStock(q)
        \/ SalesAssemble(q)
        \/ CallSalesHistory(q)
        \/ Respond(q)

SpecC == InitH /\ [][NextC]_vars

(***************************************************************************)
(* Properties of handle_intent (checked under Spec)                        *)
(***************************************************************************)
\* the request has been classified: line 94 has been reached
Classified(q) == local[q].intent # ""

\* C1: a finished sales_history request whose query yields a brand and whose
\* parameters {brand, start_date?, end_date?} were assembled (line 109) has
\* invoked get_sales_history exactly once, with that brand and the extracted
\* window, and, when the API answered with a payload, returned an
\* IntentResponse with intent sales_history, those parameters and that payload
C1_SalesDispatched ==
    \A q \in Queries :
        (pc[q] = "done" /\ local[q].intent = "sales_history"
                        /\ extract_brand(payload[q].query) # None
                        /\ local[q].params # <<>>) =>
            /\ local[q].params.brand = extract_brand(payload[q].query)
            /\ Len(calls[q]) = 1
            /\ calls[q][1].fn = "get_sales_history"
            /\ calls[q][1].args.brand = extract_brand(payload[q].query)
            /\ (upstream[q] # None /\ upstream[q][1].kind = "json") =>
                   /\ outcome[q][1].kind = "IntentResponse"
                   /\ outcome[q][1].intent = "sales_history"
                   /\ outcome[q][1].parameters = local[q].params

\* C2: the branch handle_intent takes is a fixed-priority function of the
\* lower-cased query: "inventory" or "stock" gives supplier_stock even when
\* "sale" occurs too; otherwise "sale" gives sales_history; otherwise the
\* request ends with the 400 "Unable to interpret the requested intent.", no
\* intent and no collaborator call
C2_FixedPriority ==
    \A q \in Queries :
        /\ (pc[q] = "done" /\ client[q] # None) => Classified(q)
        /\ Classified(q) =>
             LET t == Lower(payload[q].query)
                 stockish == Contains(t, W_inventory) \/ Contains(t, W_stock)
                 saleish  == Contains(t, W_sale)
             IN  /\ stockish => local[q].intent = "supplier_stock"
                 /\ (~stockish /\ saleish) => local[q].intent = "sales_history"
                 /\ (~stockish /\ ~saleish) =>
                       /\ local[q].intent = "none"
                       /\ pc[q] = "done"
                       /\ outcome[q] = Some(HTTPException400(DetailIntent))
                       /\ WireResponse(outcome[q][1]).status_code = 400
                       /\ calls[q] = <<>>

\* a query with both "stock" and "sales" has taken the supplier_stock branch
C2_Witness ==
    /\ payload["q1"] # <<>>
    /\ Contains(Lower(payload["q1"].query), W_stock)
    /\ Contains(Lower(payload["q1"].query), W_sale)
    /\ local["q1"].intent = "supplier_stock"
    /\ pc["q1"] = "done"

\* the supplier identifier the claim names: the override when one is given
\* (a non-empty string), otherwise the configured default
ClaimedSupplier(q) ==
    IF payload[q].supplier_id # None /\ payload[q].supplier_id # Some("")
    THEN payload[q].supplier_id
    ELSE client[q][1].default_supplier_id

\* lines 95-102 have run for a supplier_stock request
StockAssembled(q) == local[q].intent = "supplier_stock" /\ pc[q] # "supplier_stock"

\* C3: for a supplier_stock request with an identifier available, the
\* parameters are exactly {supplier_id: override else default, brand:
\* extract_brand(query)} and get_supplier_stock is invoked once with the same
\* supplier_id and brand
C3_StockParameters ==
    \A q \in Queries :
        (StockAssembled(q) /\ TruthyStr(ClaimedSupplier(q))) =>
            /\ local[q].params = [supplier_id |-> ClaimedSupplier(q),
                                  brand |-> extract_brand(payload[q].query)]
            /\ pc[q] \in {"stock_call", "await", "done"}
            /\ pc[q] \in {"await", "done"} =>
                  /\ calls[q] = << [fn |-> "get_supplier_stock",
                                    args |-> [supplier_id |-> ClaimedSupplier(q),
                                              brand |-> extract_brand(payload[q].query)]] >>
                  /\ Len(http[q]) = 1
                  /\ http[q][1].params.supplierId = ClaimedSupplier(q)
            /\ (pc[q] = "done" /\ upstream[q][1].kind = "json") =>
                  outcome[q] = Some(IntentResponse("supplier_stock", local[q].params, "payload"))

\* "Show ACME stock" with default supplier "S1" and no override has been answered
C3_Witness ==
    /\ payload["q1"] = [query |-> Join(<<W_Show, W_ACME, W_stock>>), supplier_id |-> None]
    /\ env.default_supplier_id = Some("S1")
    /\ local["q1"].params = [supplier_id |-> Some("S1"), brand |-> Some(W_ACME)]
    /\ calls["q1"] = << [fn |-> "get_supplier_stock",
                         args |-> [supplier_id |-> Some("S1"), brand |-> Some(W_ACME)]] >>
    /\ outcome["q1"] # None
    /\ outcome["q1"][1].kind = "IntentResponse"

\* C4: a supplier_stock request with no override and no configured default
\* ends with the 400 "Supplier ID is required..." and get_supplier_stock is
\* never invoked for it
C4_MissingSupplier ==
    \A q \in Queries :
        (local[q].intent = "supplier_stock" /\ ~TruthyStr(payload[q].supplier_id)
                                            /\ ~TruthyStr(client[q][1].default_supplier_id)) =>
            /\ calls[q] = <<>>
            /\ http[q] = <<>>
            /\ pc[q] \in {"supplier_stock", "done"}
            /\ pc[q] = "done" =>
                  /\ outcome[q] = Some(HTTPException400(DetailSupplier))
                  /\ WireResponse(outcome[q][1]).status_code = 400

\* a stock query with neither override nor default has ended
C4_Witness ==
    /\ pc["q1"] = "done"
    /\ local["q1"].intent = "supplier_stock"
    /\ payload["q1"].supplier_id = None
    /\ env.default_supplier_id = None
    /\ outcome["q1"] = Some(HTTPException400(DetailSupplier))

\* C5: a finished sales_history request whose query yields no brand has ended
\* with the 400 "Unable to determine a brand..." and get_sales_history was not
\* invoked for it
C5_MissingBrand ==
    \A q \in Queries :
        (pc[q] = "done" /\ local[q].intent = "sales_history"
                        /\ extract_brand(payload[q].query) = None) =>
            /\ outcome[q] = Some(HTTPException400(DetailBrand))
            /\ calls[q] = <<>>

\* C9: when the API call fails or answers an error status, the request ends
\* with a client-visible error carrying the status the API reported, after a
\* single attempt
C9_UpstreamSurfaced ==
    \A q \in Queries :
        (pc[q] = "done" /\ upstream[q] # None /\ upstream[q][1].kind # "json") =>
            /\ Len(http[q]) = 1
            /\ outcome[q][1].kind = "HTTPException"
            /\ upstream[q][1].kind = "status" =>
                  WireResponse(outcome[q][1]).status_code = upstream[q][1].status

(***************************************************************************)
(* Properties of concurrent requests (checked under SpecC)                 *)
(***************************************************************************)
\* how the handler ends once the API answered a
AloneAnswered(intent, params, a) ==
    CASE a[1].kind = "json" -> IntentResponse(intent, params, "payload")
      [] a[1].kind = "status" -> Unhandled("HTTPStatusError", a[1].status)
      [] a[1].kind = "transport" -> Unhandled("RequestError", 0)

AloneStock(p, cred, a) ==
    LET sid    == OrStr(p.supplier_id, cred.default_supplier_id)
        brand  == extract_brand(p.query)
        params == [supplier_id |-> sid, brand |-> brand]
    IN  IF ~TruthyStr(sid)
        THEN [intent |-> "supplier_stock", parameters |-> <<>>,
              outcome |-> HTTPException400(DetailSupplier)]
        ELSE [intent |-> "supplier_stock", parameters |-> params,
              outcome |-> IF get_supplier_stock(cred, sid, brand).raised # ""
                          THEN Unhandled("ValueError", 0)
                          ELSE AloneAnswered("supplier_stock", params, a)]

AloneSales(p, cred, now, a) ==
    LET w      == extract_time_window(p.query, now[1])
        brand  == extract_brand(p.query)
        params == DictUpdate(w.value, "brand", brand)
        b      == BindSalesKeywords(brand, params)
    IN  IF w.raised # ""
        THEN [intent |-> "sales_history", parameters |-> <<>>,
              outcome |-> Unhandled(w.raised, 0)]
        ELSE [intent |-> "sales_history", parameters |-> params,
              outcome |-> IF ~TruthySeq(brand) THEN HTTPException400(DetailBrand)
                          ELSE IF b.raised # "" THEN Unhandled(b.raised, 0)
                          ELSE IF get_sales_history(cred, b.kw).raised # ""
                          THEN Unhandled("ValueError", 0)
                          ELSE AloneAnswered("sales_history", params, a)]

\* handle_intent run from start to end on its own: the intent, parameters and
\* outcome for request p, environment e, clock reading now and API answer a
AloneResult(p, e, now, a) ==
    LET c == NewClient(e)
        intent == Classify(Lower(p.query))
    IN  IF c.raised # ""
        THEN [intent |-> "", parameters |-> <<>>, outcome |-> Unhandled(c.raised, 0)]
        ELSE CASE intent = "none" ->
                    [intent |-> "none", parameters |-> <<>>,
                     outcome |-> HTTPException400(DetailIntent)]
               [] intent = "supplier_stock" -> AloneStock(p, c.credentials[1], a)
               [] intent = "sales_history" -> AloneSales(p, c.credentials[1], now, a)

\* C10: however the requests interleave, each invokes a collaborator at most
\* once and sends at most one HTTP request, and a finished request's intent,
\* parameters and outcome are those of handling it alone with the same text,
\* override, environment, clock reading and API answer
C10_Independent ==
    \A q \in Queries :
        /\ Len(calls[q]) <= 1
        /\ Len(http[q]) <= 1
        /\ pc[q] = "done" =>
              LET alone == AloneResult(payload[q], env, local[q].now, upstream[q])
              IN  /\ outcome[q] = Some(alone.outcome)
                  /\ local[q].intent = alone.intent
                  /\ local[q].params = alone.parameters

\* two requests with different queries and brands have both finished, a stock
\* request that was answered and a sales request
C10_Witness ==
    /\ pc["q1"] = "done" /\ pc["q2"] = "done"
    /\ outcome["q1"][1].kind = "IntentResponse"
    /\ local["q1"].brand = Some(W_ACME)
    /\ local["q2"].intent = "sales_history"
    /\ local["q2"].brand = Some(W_TechCo)
    /\ local["q2"].params # <<>>

====
